---- MODULE Spec2Model ----
(***************************************************************************)
(* A model of the image-convert front end: FileProcessor (js/modules/      *)
(* FileProcessor.js), ImageConverter (js/modules/ImageConverter.js), the   *)
(* UI (unnamed/part_000) and the controller ImageConverterApp (js/app.js). *)
(*                                                                         *)
(* One action is one task of the browser's event loop together with the    *)
(* microtasks it queues (promise continuations run before the next task):  *)
(* a DOM event handler, a FileReader callback, the settlement of a         *)
(* conversion, the settlement of the fetch inside createActionLinks.       *)
(***************************************************************************)
EXTENDS Integers, Sequences, FiniteSets, TLC

\* Bounds of the model.
MaxFiles == 3        \* files selected, over all selections
MaxSelections == 2   \* file selections (processFiles calls)
MaxTasks == 2        \* conversions started, over all convert runs
MaxBytes == 4        \* bytes of an encoded image
MaxNameLen == 3      \* characters of a file name
MaxFieldLen == 2     \* characters of a resize field's value
MaxRequests == 2     \* convertToFormat calls followed step by step
MaxChanges == 3      \* change events fs.watch delivers to the dev server
MaxClients == 1      \* hot-reload clients connected at a time
MaxLoads == 12       \* page loads

\* The values the inputs of the helpers are drawn from. 20000 times a size
\* fits 32 bits, and no two sizes put the percentage exactly halfway
\* between 0.00 and 0.01.
ByteValues == {0, 171, 255}
NameChars == {"p", "J", ".", "/"}
Sizes == {0, 1, 2, 3, 63, 160, 39999, 40000}

FieldChars == {"0", "2", "-", "."}
Fits == {"", "contain"}

Formats == {"webp", "avif"}

VARIABLES
    heap,                  \* every array ever assigned to FileProcessor.processedFiles;
                           \* this.processedFiles is the last one
    totalFiles,            \* FileProcessor.totalFiles
    processedCount,        \* FileProcessor.processedCount
    calls,                 \* the processFiles calls, one per selection
    fileList,              \* children of #fileList: the file items, in document order
    convertButtonDisabled, \* convertButton.disabled
    progressShown,         \* progressContainer.style.display = 'block'
    progressText,          \* what updateProgress last wrote, <<processed, total>>
    output,                \* which message #output shows
    formatSelect,          \* formatSelect.value
    webpSupported,         \* ImageConverter.webpSupported
    runs,                  \* the handleConvert runs, one per convert click on files
    call,                  \* a call of one of the helpers, with its result
    resizeControls,        \* #enableResize, #resizeWidth, #resizeHeight, #resizeFit
    requests,              \* the convertToFormat calls followed step by step
    images,                \* the Image objects those calls created
    network,               \* the POSTs those calls issued, one form each
    cssDebounceTimer,      \* dev server: time left on the CSS timer, NoTimer for null
    htmlDebounceTimer,     \* dev server: time left on the HTML timer, NoTimer for null
    isRebuilding,          \* dev server: the isRebuilding flag
    builds,                \* dev server: the rebuildAssets calls, in call order
    sseClients,            \* dev server: how many clients are connected
    changes,               \* dev server: the change events fs.watch delivered
    sinceChange,           \* dev server: time since the last change of each file
    localStorage,          \* localStorage item imageConvert_visitCount, <<>> when absent
    instructionsCollapsed, \* instructionsSection has class 'collapsed'
    pageLoads              \* how many times the page was loaded

appVars == <<heap, totalFiles, processedCount, calls, fileList, convertButtonDisabled,
             progressShown, progressText, output, formatSelect, webpSupported, runs>>

converterVars == <<resizeControls, requests, images, network>>

devVars == <<cssDebounceTimer, htmlDebounceTimer, isRebuilding, builds, sseClients,
             changes, sinceChange>>

visitVars == <<localStorage, instructionsCollapsed, pageLoads>>

vars == <<heap, totalFiles, processedCount, calls, fileList, convertButtonDisabled,
          progressShown, progressText, output, formatSelect, webpSupported, runs, call,
          resizeControls, requests, images, network,
          cssDebounceTimer, htmlDebounceTimer, isRebuilding, builds, sseClients,
          changes, sinceChange, localStorage, instructionsCollapsed, pageLoads>>

----------------------------------------------------------------------------
\* UI (unnamed/part_000)

\* document.getElementById(`status-${i}`): the first item in document order
\* whose status element has that id, 0 for null.
GetElementById(list, i) ==
    IF \E p \in DOMAIN list : list[p].index = i
    THEN CHOOSE p \in DOMAIN list :
            /\ list[p].index = i
            /\ \A q \in 1..(p - 1) : list[q].index # i
    ELSE 0

UpdateFileStatus(list, i, status) ==
    LET p == GetElementById(list, i)
    IN  IF p = 0 THEN list ELSE [list EXCEPT ![p].status = status]

CreateFileItem(b, i) == [batch |-> b, index |-> i, status |-> "reading"]

AddFileItem(list, b, i) == Append(list, CreateFileItem(b, i))

\* A variant that announces browser conversion for webp whatever the browser
\* supports.
ShowConversionMethodInfoWebpLocal(format, supported) ==
    IF format = "webp" THEN "browser-info"
    ELSE IF format = "avif" THEN "server-info-avif"
    ELSE ""

ShowConversionMethodInfo(format, supported) ==
    IF format = "webp" /\ supported THEN "browser-info"
    ELSE IF format = "webp" /\ ~supported THEN "server-info"
    ELSE IF format = "avif" THEN "server-info-avif"
    ELSE ""

----------------------------------------------------------------------------
\* UI with resize controls (unnamed/part_001)

\* The resize controls of a page that has none (this.enableResizeCheckbox is
\* null), as in the UI of unnamed/part_000.
NoControls == [checkbox |-> "absent", width |-> <<>>, height |-> <<>>, fit |-> ""]

IsDigit(c) == c \in {"0", "1", "2", "3", "4", "5", "6", "7", "8", "9"}

DigitValue(c) ==
    CASE c = "0" -> 0 [] c = "1" -> 1 [] c = "2" -> 2 [] c = "3" -> 3
      [] c = "4" -> 4 [] c = "5" -> 5 [] c = "6" -> 6 [] c = "7" -> 7
      [] c = "8" -> 8 [] c = "9" -> 9

\* The value of the longest prefix of s made of digits, after acc.
RECURSIVE DigitsValue(_, _)
DigitsValue(s, acc) ==
    IF s = <<>> \/ ~IsDigit(Head(s)) THEN acc
    ELSE DigitsValue(Tail(s), 10 * acc + DigitValue(Head(s)))

NaN == [kind |-> "NaN"]

\* parseInt(s): an optional sign, then the longest run of digits; NaN when
\* there is no digit there. -0 counts as 0.
ParseInt(s) ==
    LET neg == s # <<>> /\ Head(s) = "-"
        body == IF neg THEN Tail(s) ELSE s
    IN  IF body = <<>> \/ ~IsDigit(Head(body)) THEN NaN
        ELSE [kind |-> "number",
              value |-> IF neg THEN -DigitsValue(body, 0) ELSE DigitsValue(body, 0)]

Null == [null |-> TRUE]

IsNull(options) == DOMAIN options = {"null"}

\* getResizeOptions: null, or an object whose keys are the fields that are
\* not empty.
GetResizeOptions(controls) ==
    LET keys == (IF controls.width # <<>> THEN {"width"} ELSE {})
                  \cup (IF controls.height # <<>> THEN {"height"} ELSE {})
                  \cup (IF controls.fit # "" THEN {"fit"} ELSE {})
    IN  IF controls.checkbox # "checked" THEN Null
        ELSE IF controls.width = <<>> /\ controls.height = <<>> THEN Null
        ELSE [k \in keys |->
                 CASE k = "width" -> ParseInt(controls.width)
                   [] k = "height" -> ParseInt(controls.height)
                   [] k = "fit" -> controls.fit]

\* x <= 0 for the result x of parseInt: false for NaN.
AtMostZero(x) == x.kind = "number" /\ x.value <= 0

ValidateResizeOptions(controls) ==
    IF controls.checkbox # "checked" THEN TRUE
    ELSE IF controls.width = <<>> /\ controls.height = <<>> THEN FALSE
    ELSE IF controls.width # <<>> /\ AtMostZero(ParseInt(controls.width)) THEN FALSE
    ELSE IF controls.height # <<>> /\ AtMostZero(ParseInt(controls.height)) THEN FALSE
    ELSE TRUE

----------------------------------------------------------------------------
\* ImageConverter (js/modules/ImageConverter.js)

\* The conversion a task awaits: which strategy serves it, whether a POST was
\* issued for it, and where its handleConvert callback stands.
ConvertToWebPInBrowser(fileData) ==
    [batch |-> fileData.batch, index |-> fileData.index, strategy |-> "local",
     posted |-> FALSE, pc |-> "converting"]

ConvertViaServer(fileData, format) ==
    [batch |-> fileData.batch, index |-> fileData.index, strategy |-> "remote",
     posted |-> TRUE, pc |-> "converting"]

\* A variant that sends every format to the server.
ConvertToFormatServerOnly(fileData, format) ==
    ConvertViaServer(fileData, format)

ConvertToFormat(fileData, format) ==
    IF format = "webp" /\ webpSupported
    THEN ConvertToWebPInBrowser(fileData)
    ELSE ConvertViaServer(fileData, format)

\* What a conversion can resolve with. The local strategy builds the result
\* itself; the remote one returns whatever the response's data field holds:
\* a result, or nothing (no data field).
ResolvedResults(strategy) ==
    IF strategy = "local" THEN {"ok"} ELSE {"ok", "noData"}

\* Whether the fetch of a result's data URL can succeed and fail: the local
\* strategy's URL comes from canvas.toDataURL, the remote one's from the
\* response.
FetchOutcomes(strategy) ==
    IF strategy = "local" THEN {TRUE} ELSE BOOLEAN

----------------------------------------------------------------------------
\* ImageConverter's helpers: getDataUrlSize, generateFileName and the size
\* computation of convertToWebPInBrowser. Strings are sequences of characters.

Min(S) == CHOOSE x \in S : \A y \in S : x <= y

Abs(x) == IF x < 0 THEN -x ELSE x

EndsWith(s, suffix) ==
    /\ Len(s) >= Len(suffix)
    /\ SubSeq(s, Len(s) - Len(suffix) + 1, Len(s)) = suffix

B64Alphabet ==
    <<"A", "B", "C", "D", "E", "F", "G", "H", "I", "J", "K", "L", "M",
      "N", "O", "P", "Q", "R", "S", "T", "U", "V", "W", "X", "Y", "Z",
      "a", "b", "c", "d", "e", "f", "g", "h", "i", "j", "k", "l", "m",
      "n", "o", "p", "q", "r", "s", "t", "u", "v", "w", "x", "y", "z",
      "0", "1", "2", "3", "4", "5", "6", "7", "8", "9", "+", "/">>

\* Standard padded base64 of a byte sequence (what canvas.toDataURL emits).
RECURSIVE Base64(_)
Base64(bytes) ==
    IF Len(bytes) = 0 THEN <<>>
    ELSE LET b1 == bytes[1]
             b2 == IF Len(bytes) >= 2 THEN bytes[2] ELSE 0
             b3 == IF Len(bytes) >= 3 THEN bytes[3] ELSE 0
             n == b1 * 65536 + b2 * 256 + b3
             c1 == B64Alphabet[(n \div 262144) + 1]
             c2 == B64Alphabet[((n \div 4096) % 64) + 1]
             c3 == B64Alphabet[((n \div 64) % 64) + 1]
             c4 == B64Alphabet[(n % 64) + 1]
         IN  IF Len(bytes) = 1 THEN <<c1, c2, "=", "=">>
             ELSE IF Len(bytes) = 2 THEN <<c1, c2, c3, "=">>
             ELSE <<c1, c2, c3, c4>> \o Base64(SubSeq(bytes, 4, Len(bytes)))

\* canvas.toDataURL('image/webp', 0.8) for an encoding of these bytes; the
\* media type stands as one symbol before the comma.
ToDataURL(bytes) == <<"data:image/webp;base64", ",">> \o Base64(bytes)

\* dataUrl.split(',')[1]: the piece between the first and the second comma.
SplitSecond(s) ==
    LET commas == {i \in DOMAIN s : s[i] = ","}
        first == Min(commas)
        later == {i \in commas : i > first}
        last == IF later = {} THEN Len(s) ELSE Min(later) - 1
    IN  SubSeq(s, first + 1, last)

\* A variant that forgets the padding.
GetDataUrlSizeNoPadding(dataUrl) ==
    (Len(SplitSecond(dataUrl)) * 3) \div 4

GetDataUrlSize(dataUrl) ==
    LET base64 == SplitSecond(dataUrl)
    IN  ((Len(base64) * 3) \div 4)
          - (IF EndsWith(base64, <<"=", "=">>) THEN 2
             ELSE IF EndsWith(base64, <<"=">>) THEN 1 ELSE 0)

FormatChars(format) ==
    CASE format = "webp" -> <<"w", "e", "b", "p">>
      [] format = "avif" -> <<"a", "v", "i", "f">>

\* Where /\.[^/.]+$/ matches in s: a dot followed, up to the end, by one or
\* more characters that are neither '/' nor '.'.
ExtMatchesAt(s, i) ==
    /\ s[i] = "."
    /\ i < Len(s)
    /\ \A j \in (i + 1)..Len(s) : s[j] \notin {"/", "."}

\* originalName.replace(/\.[^/.]+$/, ''): the leftmost match is removed.
ReplaceExt(s) ==
    IF \E i \in DOMAIN s : ExtMatchesAt(s, i)
    THEN SubSeq(s, 1, Min({i \in DOMAIN s : ExtMatchesAt(s, i)}) - 1)
    ELSE s

\* A variant that appends the format to the whole name.
GenerateFileNameAppend(originalName, format) ==
    originalName \o <<".">> \o FormatChars(format)

GenerateFileName(originalName, format) ==
    ReplaceExt(originalName) \o <<".">> \o FormatChars(format)

\* (100 * num / den).toFixed(2) in hundredths, den > 0: the nearest
\* hundredth. The quotient is computed in doubles, so a value that lies
\* exactly between two hundredths goes to either of them.
ToFixed2(num, den) ==
    LET a == Abs(num) * 10000
        q == a \div den
        rem == a % den
        mags == IF 2 * rem < den THEN {q}
                ELSE IF 2 * rem > den THEN {q + 1}
                ELSE {q, q + 1}
    IN  {IF num < 0 THEN -m ELSE m : m \in mags}

\* A variant that measures growth instead of reduction.
ReductionPercentageInverted(originalSize, convertedSize) ==
    IF originalSize = 0
    THEN {IF convertedSize = 0 THEN [kind |-> "NaN"] ELSE [kind |-> "Infinity"]}
    ELSE {[kind |-> "number", hundredths |-> h] :
             h \in ToFixed2(convertedSize - originalSize, originalSize)}

\* Number((((originalSize - convertedSize) / originalSize) * 100).toFixed(2)):
\* the values it can have, a number of hundredths, NaN (0 / 0) or -Infinity
\* (a negative number divided by 0).
ReductionPercentage(originalSize, convertedSize) ==
    IF originalSize = 0
    THEN {IF convertedSize = 0 THEN [kind |-> "NaN"] ELSE [kind |-> "-Infinity"]}
    ELSE {[kind |-> "number", hundredths |-> h] :
             h \in ToFixed2(originalSize - convertedSize, originalSize)}

\* reductionPercentage > 0 ? 'reduced' : 'increased' in displayConversionResult.
SizeText(reductionPercentage) ==
    IF reductionPercentage.kind = "number" /\ reductionPercentage.hundredths > 0
    THEN "reduced"
    ELSE "increased"

----------------------------------------------------------------------------
\* UI: the instructions section and the visit count (unnamed/part_000)

DigitChar(d) ==
    CASE d = 0 -> "0" [] d = 1 -> "1" [] d = 2 -> "2" [] d = 3 -> "3"
      [] d = 4 -> "4" [] d = 5 -> "5" [] d = 6 -> "6" [] d = 7 -> "7"
      [] d = 8 -> "8" [] d = 9 -> "9"

\* n.toString() for an integer n: its decimal digits.
RECURSIVE NumberToString(_)
NumberToString(n) ==
    IF n < 0 THEN <<"-">> \o NumberToString(-n)
    ELSE IF n < 10 THEN <<DigitChar(n)>>
    ELSE NumberToString(n \div 10) \o <<DigitChar(n % 10)>>

\* getVisitCount: count ? parseInt(count, 10) : 0, for the stored item
\* (<<>> when localStorage.getItem returns null).
GetVisitCount(item) ==
    IF item = <<>> THEN [kind |-> "number", value |-> 0] ELSE ParseInt(item)

\* A variant that collapses from the fourth visit on.
InitializeInstructionsLate(item, collapsed) ==
    LET visitCount == GetVisitCount(item)
    IN  IF visitCount.kind = "number" /\ visitCount.value > 2 THEN TRUE ELSE collapsed

\* initializeInstructions: whether the section is collapsed after it.
InitializeInstructions(item, collapsed) ==
    LET visitCount == GetVisitCount(item)
    IN  IF visitCount.kind = "number" /\ visitCount.value > 1 THEN TRUE ELSE collapsed

\* incrementVisitCount: the item it stores.
IncrementedItem(item) ==
    LET currentCount == GetVisitCount(item)
    IN  IF currentCount.kind = "number" THEN NumberToString(currentCount.value + 1)
        ELSE <<"N", "a", "N">>

\* incrementVisitCount: whether the section is collapsed after it.
IncrementedCollapsed(item, collapsed) ==
    LET currentCount == GetVisitCount(item)
    IN  IF currentCount.kind = "number" /\ currentCount.value = 1 THEN TRUE
        ELSE collapsed

\* The page after its first load: the constructors have run once.
FirstVisit ==
    /\ localStorage = IncrementedItem(<<>>)
    /\ instructionsCollapsed =
          IncrementedCollapsed(<<>>, InitializeInstructions(<<>>, FALSE))
    /\ pageLoads = 1

----------------------------------------------------------------------------
\* Development server (build/build-utils.js): time in milliseconds

\* The delay of the debounce timers.
Debounce == 300

\* Time advances in steps of a third of the delay.
Step == Debounce \div 3

\* A timer variable that holds null.
NoTimer == -1

WatchedFiles == {"CSS", "HTML"}

\* The development server is not running.
DevIdle ==
    /\ cssDebounceTimer = NoTimer
    /\ htmlDebounceTimer = NoTimer
    /\ isRebuilding = FALSE
    /\ builds = <<>>
    /\ sseClients = 0
    /\ changes = <<>>
    /\ sinceChange = [f \in WatchedFiles |-> Debounce]

----------------------------------------------------------------------------
\* State after construction (app.js constructor). The page's markup is not
\* part of the sources: the button's initial disabled state and the selected
\* format are any value the markup can give them.

NoCall == [op |-> "none"]

AppInit ==
    /\ heap = << <<>> >>
    /\ totalFiles = 0
    /\ processedCount = 0
    /\ calls = <<>>
    /\ fileList = <<>>
    /\ convertButtonDisabled \in BOOLEAN
    /\ progressShown = FALSE
    /\ progressText = <<>>
    /\ webpSupported \in BOOLEAN
    /\ formatSelect \in Formats
    /\ output = ShowConversionMethodInfo(formatSelect, webpSupported)
    /\ runs = <<>>

\* No convertToFormat call is followed step by step, and the page has the
\* UI of unnamed/part_000, without resize controls.
ConverterIdle ==
    /\ resizeControls = NoControls
    /\ requests = <<>>
    /\ images = <<>>
    /\ network = <<>>

Init ==
    /\ AppInit
    /\ call = NoCall
    /\ ConverterIdle
    /\ DevIdle
    /\ FirstVisit

----------------------------------------------------------------------------
\* ImageConverterApp.handleFileSelect and FileProcessor.processFiles

\* A variant without the check of files.length: an empty selection resets
\* the list and the reader, and processFiles returns at once.
HandleFileSelectUnguarded ==
    /\ Len(calls) < MaxSelections
    /\ progressShown' = FALSE
    /\ convertButtonDisabled' = FALSE
    /\ output' = ""
    /\ heap' = Append(heap, <<>>)
    /\ totalFiles' = 0
    /\ processedCount' = 0
    /\ fileList' = <<>>
    /\ calls' = Append(calls, [n |-> 0, i |-> 0, pc |-> "resolved"])
    /\ UNCHANGED <<progressText, formatSelect, webpSupported, runs, call,
                   converterVars, devVars, visitVars>>

\* change on #fileInput with no file: the handler returns at once.
HandleFileSelectEmpty ==
    /\ UNCHANGED vars

RECURSIVE SumFiles(_)
SumFiles(b) == IF b = 0 THEN 0 ELSE calls[b].n + SumFiles(b - 1)

\* Files selected so far.
FilesSelected == SumFiles(Len(calls))

\* change on #fileInput with n files: showProgress, resetFileList,
\* hideConvertedMessage, then processFiles up to its first await.
HandleFileSelect(n) ==
    /\ n >= 1
    /\ Len(calls) < MaxSelections
    /\ FilesSelected + n <= MaxFiles
    /\ progressShown' = TRUE
    /\ convertButtonDisabled' = TRUE
    /\ output' = ""
    /\ heap' = Append(heap, <<>>)
    /\ totalFiles' = n
    /\ processedCount' = 0
    /\ fileList' = AddFileItem(<<>>, Len(calls) + 1, 0)
    /\ calls' = Append(calls, [n |-> n, i |-> 0, pc |-> "reading"])
    /\ UNCHANGED <<progressText, formatSelect, webpSupported, runs, call,
                   converterVars, devVars, visitVars>>

\* reader.onload of the read that call b awaits: the rest of the loop body,
\* then either the next iteration up to its await or the return, after which
\* handleFileSelect hides the progress bar and enables the button.
ReaderOnload(b) ==
    /\ b \in DOMAIN calls
    /\ calls[b].pc = "reading"
    /\ LET c == calls[b]
           list1 == UpdateFileStatus(fileList, c.i, "read")
       IN  /\ heap' = [heap EXCEPT ![Len(heap)] =
                          Append(@, [batch |-> b, index |-> c.i])]
           /\ processedCount' = processedCount + 1
           /\ progressText' = <<processedCount + 1, totalFiles>>
           /\ IF c.i + 1 < c.n
              THEN /\ fileList' = AddFileItem(list1, b, c.i + 1)
                   /\ calls' = [calls EXCEPT ![b].i = c.i + 1]
                   /\ UNCHANGED <<progressShown, convertButtonDisabled>>
              ELSE /\ fileList' = list1
                   /\ calls' = [calls EXCEPT ![b].pc = "resolved"]
                   /\ progressShown' = FALSE
                   /\ convertButtonDisabled' = FALSE
    /\ UNCHANGED <<totalFiles, output, formatSelect, webpSupported, runs, call,
                   converterVars, devVars, visitVars>>

\* A variant whose catch block does not rethrow: the loop goes on with the
\* next file.
ReaderOnerrorContinue(b) ==
    /\ b \in DOMAIN calls
    /\ calls[b].pc = "reading"
    /\ LET c == calls[b]
           list1 == UpdateFileStatus(fileList, c.i, "readError")
       IN  IF c.i + 1 < c.n
           THEN /\ fileList' = AddFileItem(list1, b, c.i + 1)
                /\ calls' = [calls EXCEPT ![b].i = c.i + 1]
                /\ UNCHANGED <<progressShown, convertButtonDisabled>>
           ELSE /\ fileList' = list1
                /\ calls' = [calls EXCEPT ![b].pc = "resolved"]
                /\ progressShown' = FALSE
                /\ convertButtonDisabled' = FALSE
    /\ UNCHANGED <<heap, totalFiles, processedCount, progressText, output,
                   formatSelect, webpSupported, runs, call,
                   converterVars, devVars, visitVars>>

\* reader.onerror of the read that call b awaits: the catch block rethrows,
\* processFiles rejects and handleFileSelect shows the error.
ReaderOnerror(b) ==
    /\ b \in DOMAIN calls
    /\ calls[b].pc = "reading"
    /\ fileList' = UpdateFileStatus(fileList, calls[b].i, "readError")
    /\ calls' = [calls EXCEPT ![b].pc = "rejected"]
    /\ progressShown' = FALSE
    /\ output' = "error"
    /\ UNCHANGED <<heap, totalFiles, processedCount, convertButtonDisabled,
                   progressText, formatSelect, webpSupported, runs, call,
                   converterVars, devVars, visitVars>>

----------------------------------------------------------------------------
\* ImageConverterApp.updateConversionInfo, on change of #formatSelect

UpdateConversionInfo(f) ==
    /\ f \in Formats
    /\ formatSelect' = f
    /\ output' = ShowConversionMethodInfo(f, webpSupported)
    /\ UNCHANGED <<heap, totalFiles, processedCount, calls, fileList,
                   convertButtonDisabled, progressShown, progressText,
                   webpSupported, runs, call,
                   converterVars, devVars, visitVars>>

----------------------------------------------------------------------------
\* ImageConverterApp.handleConvert

\* The forEach callbacks up to their await, in order: each marks its record
\* as converting.
RECURSIVE StartAll(_, _, _)
StartAll(list, files, k) ==
    IF k > Len(files) THEN list
    ELSE StartAll(UpdateFileStatus(list, files[k].index, "converting"), files, k + 1)

RECURSIVE SumTasks(_)
SumTasks(k) == IF k = 0 THEN 0 ELSE Len(runs[k].tasks) + SumTasks(k - 1)

\* Conversions started so far.
TasksStarted == SumTasks(Len(runs))

\* click on an enabled #convertButton with no processed file: the alert.
HandleConvertEmpty ==
    /\ ~convertButtonDisabled
    /\ Len(heap[Len(heap)]) = 0
    /\ UNCHANGED vars

\* A variant that converts the records one after the other: only the first
\* conversion is started at the click.
HandleConvertSequential ==
    /\ ~convertButtonDisabled
    /\ TasksStarted + Len(heap[Len(heap)]) <= MaxTasks
    /\ LET files == heap[Len(heap)]
       IN  /\ Len(files) > 0
           /\ output' = "converting"
           /\ fileList' = UpdateFileStatus(fileList, files[1].index, "converting")
           /\ runs' = Append(runs,
                  [arr |-> Len(heap), format |-> formatSelect,
                   convertedFilesCount |-> 0, resolved |-> FALSE, signalled |-> 0,
                   tasks |-> [k \in 1..Len(files) |->
                                 IF k = 1 THEN ConvertToFormat(files[k], formatSelect)
                                 ELSE [ConvertToFormat(files[k], formatSelect)
                                          EXCEPT !.posted = FALSE, !.pc = "waiting"]]])
    /\ UNCHANGED <<heap, totalFiles, processedCount, calls, convertButtonDisabled,
                   progressShown, progressText, formatSelect, webpSupported, call,
                   converterVars, devVars, visitVars>>

\* click on an enabled #convertButton: the run keeps the array it read from
\* getProcessedFiles() and the format selected at the click.
HandleConvert ==
    /\ ~convertButtonDisabled
    /\ TasksStarted + Len(heap[Len(heap)]) <= MaxTasks
    /\ LET files == heap[Len(heap)]
       IN  /\ Len(files) > 0
           /\ output' = "converting"
           /\ fileList' = StartAll(fileList, files, 1)
           /\ runs' = Append(runs,
                  [arr |-> Len(heap), format |-> formatSelect,
                   convertedFilesCount |-> 0, resolved |-> FALSE, signalled |-> 0,
                   tasks |-> [k \in 1..Len(files) |->
                                 ConvertToFormat(files[k], formatSelect)]])
    /\ UNCHANGED <<heap, totalFiles, processedCount, calls, convertButtonDisabled,
                   progressShown, progressText, formatSelect, webpSupported, call,
                   converterVars, devVars, visitVars>>

\* The finally block of task k of run r, and the then-callback when it
\* resolves waitForAllFilesToBeConverted: `rs` is runs with the task's new
\* state, `list` the file items after the task's status update.
Finally(r, rs, list) ==
    LET n == rs[r].convertedFilesCount + 1
        hit == n = Len(heap[rs[r].arr])
        fire == hit /\ ~rs[r].resolved
    IN  /\ runs' = [rs EXCEPT ![r].convertedFilesCount = n,
                              ![r].resolved = @ \/ hit,
                              ![r].signalled = IF fire THEN @ + 1 ELSE @]
        /\ output' = IF fire THEN "converted" ELSE output
        /\ fileList' = list

\* The start of displayConversionResult, up to the await inside
\* createActionLinks: destructuring an absent result throws, and so does
\* writing to a file-info element that is no longer in the document. The
\* function is async: the throw rejects the promise it returns.
DisplayConversionResult(list, index, res) ==
    IF res = "noData" \/ GetElementById(list, index) = 0
    THEN "displayRejected"
    ELSE "displaying"

\* The conversion of task k of run r resolves with res.
ConvertResolved(r, k, res) ==
    /\ r \in DOMAIN runs
    /\ k \in DOMAIN runs[r].tasks
    /\ runs[r].tasks[k].pc = "converting"
    /\ res \in ResolvedResults(runs[r].tasks[k].strategy)
    /\ Finally(r,
               [runs EXCEPT ![r].tasks[k].pc =
                                DisplayConversionResult(fileList, runs[r].tasks[k].index, res)],
               fileList)
    /\ UNCHANGED <<heap, totalFiles, processedCount, calls, convertButtonDisabled,
                   progressShown, progressText, formatSelect, webpSupported, call,
                   converterVars, devVars, visitVars>>

\* The conversion of task k of run r rejects: the catch block.
ConvertRejected(r, k) ==
    /\ r \in DOMAIN runs
    /\ k \in DOMAIN runs[r].tasks
    /\ runs[r].tasks[k].pc = "converting"
    /\ Finally(r,
               [runs EXCEPT ![r].tasks[k].pc = "failed"],
               UpdateFileStatus(fileList, runs[r].tasks[k].index, "failed"))
    /\ UNCHANGED <<heap, totalFiles, processedCount, calls, convertButtonDisabled,
                   progressShown, progressText, formatSelect, webpSupported, call,
                   converterVars, devVars, visitVars>>

\* The fetch of the result's data URL inside createActionLinks settles: the
\* rest of displayConversionResult. Nothing awaits or catches its promise.
DisplaySettled(r, k, fetched) ==
    /\ r \in DOMAIN runs
    /\ k \in DOMAIN runs[r].tasks
    /\ runs[r].tasks[k].pc = "displaying"
    /\ fetched \in FetchOutcomes(runs[r].tasks[k].strategy)
    /\ LET t == runs[r].tasks[k]
           shown == fetched /\ GetElementById(fileList, t.index) # 0
       IN  /\ runs' = [runs EXCEPT ![r].tasks[k].pc =
                          IF shown THEN "completed" ELSE "displayRejected"]
           /\ fileList' = IF shown
                          THEN UpdateFileStatus(fileList, t.index, "completed")
                          ELSE fileList
    /\ UNCHANGED <<heap, totalFiles, processedCount, calls, convertButtonDisabled,
                   progressShown, progressText, output, formatSelect, webpSupported, call,
                   converterVars, devVars, visitVars>>

----------------------------------------------------------------------------

Next ==
    \/ HandleFileSelectEmpty
    \/ \E n \in 1..MaxFiles : HandleFileSelect(n)
    \/ \E b \in 1..MaxSelections : ReaderOnload(b)
    \/ \E b \in 1..MaxSelections : ReaderOnerror(b)
    \/ \E f \in Formats : UpdateConversionInfo(f)
    \/ HandleConvertEmpty
    \/ HandleConvert
    \/ \E r \in 1..MaxTasks : \E k \in 1..MaxTasks :
          \E res \in {"ok", "noData"} : ConvertResolved(r, k, res)
    \/ \E r \in 1..MaxTasks : \E k \in 1..MaxTasks : ConvertRejected(r, k)
    \/ \E r \in 1..MaxTasks : \E k \in 1..MaxTasks :
          \E fetched \in BOOLEAN : DisplaySettled(r, k, fetched)

Spec == Init /\ [][Next]_vars

----------------------------------------------------------------------------
\* The helpers on their own: a call is drawn with its arguments, then made.

Names == UNION {[1..n -> NameChars] : n \in 1..MaxNameLen}

ByteSeqs == UNION {[1..n -> ByteValues] : n \in 0..MaxBytes}

PendingCalls ==
    {[op |-> "getDataUrlSize", bytes |-> b, dataUrl |-> ToDataURL(b),
      done |-> FALSE] : b \in ByteSeqs}
    \cup {[op |-> "generateFileName", originalName |-> nm, format |-> f,
           done |-> FALSE] : nm \in Names, f \in Formats}
    \cup {[op |-> "reductionPercentage", originalSize |-> o, convertedSize |-> c,
           done |-> FALSE] : o \in Sizes, c \in Sizes}
    \cup {[op |-> "resizeOptions", done |-> FALSE]}

\* What a resize field can hold.
FieldValues == UNION {[1..n -> FieldChars] : n \in 0..MaxFieldLen}

\* The states of the resize controls at a call of getResizeOptions and
\* validateResizeOptions.
ControlStates ==
    {NoControls}
    \cup {[checkbox |-> c, width |-> w, height |-> h, fit |-> ft] :
             c \in {"unchecked", "checked"}, w \in FieldValues, h \in FieldValues,
             ft \in Fits}

HelpersInit ==
    /\ AppInit
    /\ call \in PendingCalls
    /\ resizeControls \in (IF call.op = "resizeOptions" THEN ControlStates ELSE {NoControls})
    /\ requests = <<>>
    /\ images = <<>>
    /\ network = <<>>
    /\ DevIdle
    /\ FirstVisit

CallGetDataUrlSize ==
    /\ call.op = "getDataUrlSize"
    /\ ~call.done
    /\ call' = [op |-> call.op, bytes |-> call.bytes, dataUrl |-> call.dataUrl,
                done |-> TRUE, out |-> GetDataUrlSize(call.dataUrl)]
    /\ UNCHANGED <<appVars, converterVars, devVars, visitVars>>

CallGenerateFileName ==
    /\ call.op = "generateFileName"
    /\ ~call.done
    /\ call' = [op |-> call.op, originalName |-> call.originalName,
                format |-> call.format, done |-> TRUE,
                out |-> GenerateFileName(call.originalName, call.format)]
    /\ UNCHANGED <<appVars, converterVars, devVars, visitVars>>

\* The size computation of convertToWebPInBrowser, and the text
\* displayConversionResult derives from it.
CallReductionPercentage ==
    /\ call.op = "reductionPercentage"
    /\ ~call.done
    /\ \E rp \in ReductionPercentage(call.originalSize, call.convertedSize) :
          call' = [op |-> call.op, originalSize |-> call.originalSize,
                   convertedSize |-> call.convertedSize, done |-> TRUE,
                   out |-> rp, sizeText |-> SizeText(rp)]
    /\ UNCHANGED <<appVars, converterVars, devVars, visitVars>>

\* validateResizeOptions, then getResizeOptions, on the same controls.
CallResizeOptions ==
    /\ call.op = "resizeOptions"
    /\ ~call.done
    /\ call' = [op |-> call.op, done |-> TRUE,
                valid |-> ValidateResizeOptions(resizeControls),
                out |-> GetResizeOptions(resizeControls)]
    /\ UNCHANGED <<appVars, converterVars, devVars, visitVars>>

HelpersNext ==
    \/ CallGetDataUrlSize
    \/ CallGenerateFileName
    \/ CallReductionPercentage
    \/ CallResizeOptions

SpecHelpers == HelpersInit /\ [][HelpersNext]_vars

----------------------------------------------------------------------------
\* convertToFormat step by step: the calls a caller has made, each with the
\* Image it loads or the POST it issued, and the way it settles. One action
\* is the call up to its first wait, or one callback of the image or of the
\* network.

\* Decoded contents of image files: the picture's size and the bytes
\* canvas.toDataURL('image/webp', 0.8) encodes it to; or bytes no decoder
\* accepts.
Wide == [decodes |-> TRUE, width |-> 4, height |-> 2, webp |-> <<0, 171>>]

Square == [decodes |-> TRUE, width |-> 3, height |-> 3, webp |-> <<255>>]

Corrupt == [decodes |-> FALSE, width |-> 0, height |-> 0, webp |-> <<>>]

\* The records of processedFiles a caller converts ({file, imageUrl, index});
\* imageUrl stands for what the data URL decodes to.
ConverterFiles ==
    {[batch |-> 1, index |-> 0, file |-> [name |-> <<"p", ".", "J">>, size |-> 160],
      imageUrl |-> Wide],
     [batch |-> 1, index |-> 1, file |-> [name |-> <<"J">>, size |-> 3],
      imageUrl |-> Square],
     [batch |-> 1, index |-> 2, file |-> [name |-> <<"J", ".", "p">>, size |-> 2],
      imageUrl |-> Corrupt]}

\* The resize controls a page with the UI of unnamed/part_001 can show when
\* a conversion starts.
ConverterControls ==
    {NoControls}
    \cup {[checkbox |-> "checked", width |-> w, height |-> h, fit |-> ft] :
             w \in {<<>>, <<"2">>}, h \in {<<>>, <<"2">>}, ft \in Fits}

\* The fields convertViaServer appends to its FormData.
FormData(fileData, format) == [image |-> fileData.file, format |-> format]

\* A variant that keeps one Image for all calls and points it at the newest
\* file.
NewImageShared(imgs, fileData) ==
    IF imgs = <<>> THEN <<[src |-> fileData.imageUrl]>>
    ELSE [imgs EXCEPT ![1].src = fileData.imageUrl]

\* new Image() followed by img.src = fileData.imageUrl: the Image objects
\* after the call, the new one last.
NewImage(imgs, fileData) == Append(imgs, [src |-> fileData.imageUrl])

\* The canvas img.onload creates and draws the image on.
DrawImage(img) == [width |-> img.src.width, height |-> img.src.height]

\* What img.onload resolves with, for the image it was delivered for.
OnloadResults(fileData, img) ==
    LET webpDataUrl == ToDataURL(img.src.webp)
        originalSize == fileData.file.size
        convertedSize == GetDataUrlSize(webpDataUrl)
    IN  {[originalSize |-> originalSize,
          convertedSize |-> convertedSize,
          reductionPercentage |-> rp,
          dataUrl |-> webpDataUrl,
          format |-> "webp",
          fileName |-> GenerateFileName(fileData.file.name, "webp")] :
            rp \in ReductionPercentage(originalSize, convertedSize)}

\* The errors a conversion rejects with.
LoadError == [name |-> "Error", message |-> "Failed to load image for conversion"]

HttpError(status) == [name |-> "Error", message |-> <<"HTTP error! status: ", status>>]

\* What fetch rejects with when the request cannot be made or completed.
FetchError == [name |-> "TypeError", message |-> "Failed to fetch"]

\* What response.json() rejects with for a body that is not JSON.
JsonError == [name |-> "SyntaxError", message |-> "Unexpected token"]

\* What data.data throws when the body is the JSON null.
NullError == [name |-> "TypeError", message |-> "Cannot read properties of null"]

Pending == [kind |-> "pending"]

Resolved(value) == [kind |-> "resolved", value |-> value]

Rejected(error) == [kind |-> "rejected", error |-> error]

\* data.data for a body without a data field.
Undefined == [undefined |-> TRUE]

\* The ways the network answers a POST: no response at all, or a status.
Heads == {[kind |-> "failed", status |-> 0],
          [kind |-> "response", status |-> 200],
          [kind |-> "response", status |-> 500]}

\* The bodies of a 2xx response: not JSON, the JSON null, an object without
\* data, an object whose data is not a conversion result, a conversion result.
Bodies == {"invalidJSON", "nullJSON", "noData", "badData", "result"}

ConverterInit ==
    /\ AppInit
    /\ call = NoCall
    /\ resizeControls \in ConverterControls
    /\ requests = <<>>
    /\ images = <<>>
    /\ network = <<>>
    /\ DevIdle
    /\ FirstVisit

\* A caller calls convertToFormat(fileData, format): the local strategy
\* creates its Image and sets its src, the remote one builds the form and
\* issues the POST.
CallConvertToFormat(fileData, format) ==
    /\ Len(requests) < MaxRequests
    /\ LET task == ConvertToFormat(fileData, format)
           local == task.strategy = "local"
           imgs == IF local THEN NewImage(images, fileData) ELSE images
       IN  /\ images' = imgs
           /\ network' = IF task.posted
                         THEN Append(network, [request |-> Len(requests) + 1,
                                               form |-> FormData(fileData, format)])
                         ELSE network
           /\ requests' = Append(requests,
                  [task |-> task, fileData |-> fileData, format |-> format,
                   img |-> IF local THEN Len(imgs) ELSE 0,
                   step |-> IF local THEN "loading" ELSE "fetching",
                   event |-> "none", status |-> 0,
                   canvas |-> [width |-> 0, height |-> 0],
                   outcome |-> Pending])
    /\ UNCHANGED <<appVars, call, devVars, visitVars, resizeControls>>

\* img.onload of request q: canvas, drawImage, toDataURL, the sizes, resolve.
ImgOnload(q) ==
    /\ q \in DOMAIN requests
    /\ requests[q].step = "loading"
    /\ images[requests[q].img].src.decodes
    /\ \E result \in OnloadResults(requests[q].fileData, images[requests[q].img]) :
          requests' = [requests EXCEPT ![q].step = "settled",
                                       ![q].event = "load",
                                       ![q].canvas = DrawImage(images[requests[q].img]),
                                       ![q].outcome = Resolved(result)]
    /\ UNCHANGED <<appVars, call, devVars, visitVars, resizeControls, images, network>>

\* img.onerror of request q.
ImgOnerror(q) ==
    /\ q \in DOMAIN requests
    /\ requests[q].step = "loading"
    /\ ~images[requests[q].img].src.decodes
    /\ requests' = [requests EXCEPT ![q].step = "settled",
                                    ![q].event = "error",
                                    ![q].outcome = Rejected(LoadError)]
    /\ UNCHANGED <<appVars, call, devVars, visitVars, resizeControls, images, network>>

\* The fetch of request q settles: it rejects, or it resolves with a
\* response whose status is checked.
FetchSettled(q, head) ==
    /\ q \in DOMAIN requests
    /\ requests[q].step = "fetching"
    /\ head \in Heads
    /\ requests' =
          IF head.kind = "failed"
          THEN [requests EXCEPT ![q].step = "settled", ![q].event = "fetchFailed",
                                ![q].outcome = Rejected(FetchError)]
          ELSE IF head.status \notin 200..299
          THEN [requests EXCEPT ![q].step = "settled", ![q].event = "notOk",
                                ![q].status = head.status,
                                ![q].outcome = Rejected(HttpError(head.status))]
          ELSE [requests EXCEPT ![q].step = "parsing", ![q].status = head.status]
    /\ UNCHANGED <<appVars, call, devVars, visitVars, resizeControls, images, network>>

\* response.json() of request q settles, then return data.data.
JsonSettled(q, body) ==
    /\ q \in DOMAIN requests
    /\ requests[q].step = "parsing"
    /\ body \in Bodies
    /\ requests' = [requests EXCEPT
          ![q].step = "settled",
          ![q].event = body,
          ![q].outcome =
              CASE body = "invalidJSON" -> Rejected(JsonError)
                [] body = "nullJSON" -> Rejected(NullError)
                [] body = "noData" -> Resolved(Undefined)
                [] body = "badData" -> Resolved([data |-> "badData"])
                [] body = "result" -> Resolved([data |-> "result"])]
    /\ UNCHANGED <<appVars, call, devVars, visitVars, resizeControls, images, network>>

ConverterNext ==
    \/ \E fileData \in ConverterFiles : \E format \in Formats :
          CallConvertToFormat(fileData, format)
    \/ \E q \in 1..MaxRequests : ImgOnload(q)
    \/ \E q \in 1..MaxRequests : ImgOnerror(q)
    \/ \E q \in 1..MaxRequests : \E head \in Heads : FetchSettled(q, head)
    \/ \E q \in 1..MaxRequests : \E body \in Bodies : JsonSettled(q, body)

SpecConverter == ConverterInit /\ [][ConverterNext]_vars

----------------------------------------------------------------------------
\* Page loads and the instructions section: localStorage outlives the page,
\* the document does not.

VisitsInit ==
    /\ AppInit
    /\ call = NoCall
    /\ ConverterIdle
    /\ DevIdle
    /\ localStorage = <<>>
    /\ instructionsCollapsed = FALSE
    /\ pageLoads = 0

\* DOMContentLoaded: new UI() runs initializeInstructions on a document whose
\* instructions section is expanded, then the app's constructor calls
\* incrementVisitCount.
PageLoad ==
    /\ pageLoads < MaxLoads
    /\ pageLoads' = pageLoads + 1
    /\ localStorage' = IncrementedItem(localStorage)
    /\ instructionsCollapsed' =
          IncrementedCollapsed(localStorage, InitializeInstructions(localStorage, FALSE))
    /\ UNCHANGED <<appVars, call, converterVars, devVars>>

\* click on #instructionsHeader.
ToggleInstructions ==
    /\ pageLoads >= 1
    /\ instructionsCollapsed' = ~instructionsCollapsed
    /\ UNCHANGED <<appVars, call, converterVars, devVars, localStorage, pageLoads>>

VisitsNext ==
    \/ PageLoad
    \/ ToggleInstructions

SpecVisits == VisitsInit /\ [][VisitsNext]_vars

----------------------------------------------------------------------------
\* The development server's watchers (build/build-utils.js). One action is
\* one callback of the event loop: a change event of fs.watch, a debounce
\* timer, the completion of one awaited step of rebuildAssets, a client
\* connecting or leaving; Tick lets time pass. A timer that is due runs
\* before time passes further and before a later change event of its file.

DevInit ==
    /\ AppInit
    /\ call = NoCall
    /\ ConverterIdle
    /\ FirstVisit
    /\ DevIdle

\* The record of one rebuildAssets call: where it stands, how many change
\* events had been delivered when it was made, how long after the last
\* change of its file, and to how many clients it sent hot-reload.
Build(fileType, pc) ==
    [fileType |-> fileType, pc |-> pc, changesSeen |-> Len(changes),
     delay |-> sinceChange[fileType], sentTo |-> 0]

\* A variant without the isRebuilding check.
RebuildAssetsUnguarded(fileType) ==
    /\ isRebuilding' = TRUE
    /\ builds' = Append(builds, Build(fileType, "css"))

\* rebuildAssets(fileType) up to its first await: it returns at once when a
\* rebuild is running.
RebuildAssets(fileType) ==
    IF isRebuilding
    THEN /\ builds' = Append(builds, Build(fileType, "skipped"))
         /\ UNCHANGED isRebuilding
    ELSE /\ isRebuilding' = TRUE
         /\ builds' = Append(builds, Build(fileType, "css"))

\* A variant with one timer for both files: a CSS change clears the HTML
\* timer too.
CssChangeSharedTimer ==
    /\ Len(changes) < MaxChanges
    /\ cssDebounceTimer # 0
    /\ cssDebounceTimer' = Debounce
    /\ htmlDebounceTimer' = NoTimer
    /\ changes' = Append(changes, [file |-> "CSS", newRun |-> sinceChange["CSS"] >= Debounce])
    /\ sinceChange' = [sinceChange EXCEPT !["CSS"] = 0]
    /\ UNCHANGED <<isRebuilding, builds, sseClients>>
    /\ UNCHANGED <<appVars, call, converterVars, visitVars>>

\* fs.watch(cssPath) delivers 'change': the pending timer is cleared and a
\* new one set.
CssChange ==
    /\ Len(changes) < MaxChanges
    /\ cssDebounceTimer # 0
    /\ cssDebounceTimer' = Debounce
    /\ changes' = Append(changes, [file |-> "CSS", newRun |-> sinceChange["CSS"] >= Debounce])
    /\ sinceChange' = [sinceChange EXCEPT !["CSS"] = 0]
    /\ UNCHANGED <<htmlDebounceTimer, isRebuilding, builds, sseClients>>
    /\ UNCHANGED <<appVars, call, converterVars, visitVars>>

\* fs.watch(htmlPath) delivers 'change'.
HtmlChange ==
    /\ Len(changes) < MaxChanges
    /\ htmlDebounceTimer # 0
    /\ htmlDebounceTimer' = Debounce
    /\ changes' = Append(changes, [file |-> "HTML", newRun |-> sinceChange["HTML"] >= Debounce])
    /\ sinceChange' = [sinceChange EXCEPT !["HTML"] = 0]
    /\ UNCHANGED <<cssDebounceTimer, isRebuilding, builds, sseClients>>
    /\ UNCHANGED <<appVars, call, converterVars, visitVars>>

\* The CSS timer's callback.
CssTimerFires ==
    /\ cssDebounceTimer = 0
    /\ cssDebounceTimer' = NoTimer
    /\ RebuildAssets("CSS")
    /\ UNCHANGED <<htmlDebounceTimer, sseClients, changes, sinceChange>>
    /\ UNCHANGED <<appVars, call, converterVars, visitVars>>

\* The HTML timer's callback.
HtmlTimerFires ==
    /\ htmlDebounceTimer = 0
    /\ htmlDebounceTimer' = NoTimer
    /\ RebuildAssets("HTML")
    /\ UNCHANGED <<cssDebounceTimer, sseClients, changes, sinceChange>>
    /\ UNCHANGED <<appVars, call, converterVars, visitVars>>

\* The time left on a timer after a step of time.
Elapse(timer) == IF timer > 0 THEN (IF timer > Step THEN timer - Step ELSE 0) ELSE timer

\* Time passes, while no timer is due.
Tick ==
    /\ cssDebounceTimer # 0
    /\ htmlDebounceTimer # 0
    /\ \/ cssDebounceTimer > 0
       \/ htmlDebounceTimer > 0
       \/ \E f \in WatchedFiles : sinceChange[f] < Debounce
    /\ cssDebounceTimer' = Elapse(cssDebounceTimer)
    /\ htmlDebounceTimer' = Elapse(htmlDebounceTimer)
    /\ sinceChange' = [f \in WatchedFiles |->
                          IF sinceChange[f] + Step < Debounce
                          THEN sinceChange[f] + Step ELSE Debounce]
    /\ UNCHANGED <<isRebuilding, builds, sseClients, changes>>
    /\ UNCHANGED <<appVars, call, converterVars, visitVars>>

\* An awaited step of rebuild k settles (processCSS, processHTML,
\* fs.writeFile): the next step starts, or the hot-reload message goes to
\* every client, or the catch block logs the error; finally resets the flag.
BuildStep(k, ok) ==
    /\ k \in DOMAIN builds
    /\ builds[k].pc \in {"css", "html", "write"}
    /\ IF ~ok
       THEN /\ builds' = [builds EXCEPT ![k].pc = "failed"]
            /\ isRebuilding' = FALSE
       ELSE IF builds[k].pc = "css"
       THEN /\ builds' = [builds EXCEPT ![k].pc = "html"]
            /\ UNCHANGED isRebuilding
       ELSE IF builds[k].pc = "html"
       THEN /\ builds' = [builds EXCEPT ![k].pc = "write"]
            /\ UNCHANGED isRebuilding
       ELSE /\ builds' = [builds EXCEPT ![k].pc = "done", ![k].sentTo = sseClients]
            /\ isRebuilding' = FALSE
    /\ UNCHANGED <<cssDebounceTimer, htmlDebounceTimer, sseClients, changes, sinceChange>>
    /\ UNCHANGED <<appVars, call, converterVars, visitVars>>

\* A browser opens /hot-reload.
ClientConnects ==
    /\ sseClients < MaxClients
    /\ sseClients' = sseClients + 1
    /\ UNCHANGED <<cssDebounceTimer, htmlDebounceTimer, isRebuilding, builds,
                   changes, sinceChange>>
    /\ UNCHANGED <<appVars, call, converterVars, visitVars>>

\* req.on('close'): the client is removed.
ClientCloses ==
    /\ sseClients > 0
    /\ sseClients' = sseClients - 1
    /\ UNCHANGED <<cssDebounceTimer, htmlDebounceTimer, isRebuilding, builds,
                   changes, sinceChange>>
    /\ UNCHANGED <<appVars, call, converterVars, visitVars>>

DevNext ==
    \/ CssChange
    \/ HtmlChange
    \/ CssTimerFires
    \/ HtmlTimerFires
    \/ Tick
    \/ \E k \in 1..MaxChanges : \E ok \in BOOLEAN : BuildStep(k, ok)
    \/ ClientConnects
    \/ ClientCloses

SpecDev == DevInit /\ [][DevNext]_vars

----------------------------------------------------------------------------
\* Properties of the convert run and of the reader

\* A task whose record shows a terminal status written by this run:
\* 'Converted successfully' (completed) or 'Conversion failed' (failed).
Terminal(t) == t.pc \in {"completed", "failed"}

\* A task whose conversion request has settled.
Settled(t) == t.pc # "converting"

AllTasks == {<<r, k>> \in (1..MaxTasks) \X (1..MaxTasks) :
                r \in DOMAIN runs /\ k \in DOMAIN runs[r].tasks}

\* C1: in every convert run showConvertedMessage fires exactly once, and only
\* after every record of the run shows a terminal status (completed or
\* failed): it has fired at most once, it has fired once all records are
\* terminal, and when it has fired no record is still short of a terminal
\* status.
C1_BatchCompleteOnceAfterAllTerminal ==
    \A r \in DOMAIN runs :
        LET allTerminal == \A k \in DOMAIN runs[r].tasks : Terminal(runs[r].tasks[k])
        IN  /\ runs[r].signalled <= 1
            /\ runs[r].signalled = 1 => allTerminal
            /\ allTerminal => runs[r].signalled = 1

\* C2: no failure of one record's processing escapes the coordinator: no
\* task ends as a rejected promise that nothing handles, so every task that
\* has settled without showing its result has been turned into failed.
C2_EveryRecordFailureCaught ==
    \A rk \in AllTasks :
        LET t == runs[rk[1]].tasks[rk[2]]
        IN  /\ t.pc # "displayRejected"
            /\ Settled(t) => t.pc \in {"displaying", "completed", "failed"}

\* C3: a record's conversion failure leaves the other records of the run
\* alone, and once every conversion request of a run has settled the
\* batch-complete signal has fired, however many records failed.
C3_FailureIsolatedAndBatchCompletes ==
    /\ [](\A r \in DOMAIN runs :
            (\A k \in DOMAIN runs[r].tasks : Settled(runs[r].tasks[k]))
                => runs[r].signalled = 1)
    /\ [][\A rk \in AllTasks :
            LET r == rk[1]
                k == rk[2]
            IN  (runs[r].tasks[k].pc = "converting" /\ runs'[r].tasks[k].pc = "failed")
                => \A j \in DOMAIN runs[r].tasks :
                      j # k => runs'[r].tasks[j] = runs[r].tasks[j]]_vars

\* The place of a displayed status on pending -> reading -> read ->
\* converting -> completed | failed (a file item is created as reading).
Rank(status) ==
    CASE status = "reading" -> 1
      [] status = "read" -> 2
      [] status = "converting" -> 3
      [] status \in {"completed", "failed", "readError"} -> 4

Forward(old, new) ==
    IF Rank(old) = 4 THEN new = old ELSE Rank(new) >= Rank(old)

\* C4: the status of a record never moves backward, and a record that shows
\* completed or failed makes no further transition, in any step.
C4_StatusMonotonic ==
    [][\A p \in DOMAIN fileList \cap DOMAIN fileList' :
          (fileList'[p].batch = fileList[p].batch /\ fileList'[p].index = fileList[p].index)
              => Forward(fileList[p].status, fileList'[p].status)]_vars

\* How many files call b has read: the loop index, or all of them once resolved.
FilesRead(b) == IF calls[b].pc = "resolved" THEN calls[b].n ELSE calls[b].i

\* C5: the record list and the counters hold the newest batch only: every
\* record of processedFiles comes from the newest processFiles call, and
\* processedCount is the number of files that call has read.
C5_BatchIsolation ==
    /\ \A k \in DOMAIN heap[Len(heap)] : heap[Len(heap)][k].batch = Len(calls)
    /\ processedCount = IF calls = <<>> THEN 0 ELSE FilesRead(Len(calls))

\* C6: 0 <= processedCount <= totalFiles and convertedFilesCount is at most
\* the number of records, the newest batch is done exactly when the counts
\* are equal, and within a batch processedCount only increases.
C6_CountersBounded ==
    /\ [](/\ 0 <= processedCount
          /\ processedCount <= totalFiles
          /\ calls # <<>> =>
                (calls[Len(calls)].pc = "resolved" <=> processedCount = totalFiles)
          /\ \A r \in DOMAIN runs :
                /\ 0 <= runs[r].convertedFilesCount
                /\ runs[r].convertedFilesCount <= Len(heap[runs[r].arr])
                /\ runs[r].resolved <=>
                      runs[r].convertedFilesCount = Len(heap[runs[r].arr]))
    /\ [][/\ calls' = calls => processedCount' >= processedCount
          /\ \A r \in DOMAIN runs :
                runs'[r].convertedFilesCount >= runs[r].convertedFilesCount]_vars

\* The strategy convertToFormat takes is a function of the format and the
\* capability flag alone, and only the remote strategy issues a POST.
RoutingHolds ==
    \A rk \in AllTasks :
        LET f == runs[rk[1]].format
            t == runs[rk[1]].tasks[rk[2]]
        IN  /\ (f = "webp" /\ webpSupported) => (t.strategy = "local" /\ ~t.posted)
            /\ (f = "webp" /\ ~webpSupported) => (t.strategy = "remote" /\ t.posted)
            /\ f = "avif" => (t.strategy = "remote" /\ t.posted)

\* C7: webp with the capability flag set takes the local strategy and makes
\* no network request, avif always takes the remote strategy, and the flag
\* set at construction never changes.
C7_Routing ==
    /\ []RoutingHolds
    /\ [][webpSupported' = webpSupported]_vars

\* With local capability, one run converted webp locally and another run
\* converted avif through the server.
C7_Witness ==
    /\ webpSupported
    /\ \E r1, r2 \in DOMAIN runs :
          /\ runs[r1].format = "webp"
          /\ runs[r1].tasks[1].strategy = "local"
          /\ runs[r2].format = "avif"
          /\ runs[r2].tasks[1].strategy = "remote"

\* C11: when the read of one file fails, processFiles fails and every other
\* file of the batch is still read: a call that has failed (it reads nothing
\* further) has read all the files of its batch but the failed one.
C11_OtherReadsNotAborted ==
    \A b \in DOMAIN calls :
        calls[b].pc = "rejected" => FilesRead(b) = calls[b].n - 1

\* How many files of call b have finished reading, successfully or not.
FilesFinished(b) == FilesRead(b) + (IF calls[b].pc = "rejected" THEN 1 ELSE 0)

\* C12: a progress update is emitted after each file finishes reading,
\* whether the read succeeded or failed: once k >= 1 files of the newest
\* batch have finished, the reported progress is (k, totalCount).
C12_ProgressAfterEachFile ==
    (calls # <<>> /\ FilesFinished(Len(calls)) >= 1) =>
        progressText = <<FilesFinished(Len(calls)), calls[Len(calls)].n>>

\* C18: at the convert click a conversion request is issued for every record
\* before any conversion has finished, and no conversion is ever held back
\* waiting for another one: a new run has one task per record, all
\* converting, and every task of every run has been started.
C18_AllConversionsIssuedAtOnce ==
    /\ [](\A rk \in AllTasks :
            runs[rk[1]].tasks[rk[2]].pc \in
                {"converting", "displaying", "displayRejected", "completed", "failed"})
    /\ [][\A r \in DOMAIN runs' :
            r \notin DOMAIN runs =>
                LET files == heap[runs'[r].arr]
                IN  /\ DOMAIN runs'[r].tasks = DOMAIN files
                    /\ \A k \in DOMAIN files :
                          /\ runs'[r].tasks[k].index = files[k].index
                          /\ runs'[r].tasks[k].pc = "converting"]_vars

\* Results arrive in any order: in a run of two records the second record's
\* conversion has settled while the first is still converting.
C18_Witness ==
    \E r \in DOMAIN runs :
        /\ Len(runs[r].tasks) = 2
        /\ runs[r].tasks[1].pc = "converting"
        /\ runs[r].tasks[2].pc \in {"displaying", "completed", "failed"}

\* How many reads call b has issued: the loop issues the read of file i when
\* it reaches it.
ReadsIssued(b) == IF calls[b].pc = "resolved" THEN calls[b].n ELSE calls[b].i + 1

\* C19: within one processFiles call all file reads are issued without
\* waiting for earlier reads to finish: whenever the call waits for a read,
\* the reads of all its files have been issued.
C19_AllReadsIssuedAtOnce ==
    \A b \in DOMAIN calls :
        calls[b].pc = "reading" => ReadsIssued(b) = calls[b].n

\* C21: an empty batch starts nothing at either entry point: no processFiles
\* call is ever made for zero files and no convert run for zero records, and
\* as long as no file was selected, whatever empty selections and empty
\* convert clicks happened, the record list, the counters, the file list and
\* the progress are as constructed, no batch-complete signal was given and
\* the page shows the conversion method of the selected format.
C21_EmptyBatchStartsNothing ==
    /\ \A b \in DOMAIN calls : calls[b].n >= 1
    /\ \A r \in DOMAIN runs : Len(runs[r].tasks) >= 1
    /\ calls = <<>> =>
          /\ heap = << <<>> >>
          /\ totalFiles = 0
          /\ processedCount = 0
          /\ fileList = <<>>
          /\ progressText = <<>>
          /\ ~progressShown
          /\ runs = <<>>
          /\ output = ShowConversionMethodInfo(formatSelect, webpSupported)

\* No file was selected and the convert button is enabled: a selection of
\* zero files and a convert click on zero records are both handled here.
C21_Witness ==
    /\ calls = <<>>
    /\ ~convertButtonDisabled
    /\ Len(heap[Len(heap)]) = 0
    /\ output = "server-info-avif"

\* C22: the records of processedFiles have distinct indices in increasing
\* order, and once the newest processFiles call over N files has succeeded
\* the list holds exactly its N records with indices 0..N-1 and
\* processedCount = totalFiles = N.
C22_RecordsKeepPosition ==
    LET recs == heap[Len(heap)]
    IN  /\ \A j, k \in DOMAIN recs : j < k => recs[j].index < recs[k].index
        /\ (calls # <<>> /\ calls[Len(calls)].pc = "resolved") =>
              /\ recs = [k \in 1..calls[Len(calls)].n |->
                            [batch |-> Len(calls), index |-> k - 1]]
              /\ processedCount = calls[Len(calls)].n
              /\ totalFiles = calls[Len(calls)].n

\* The records call b has appended, over all the arrays.
RecordsOf(b) ==
    {rec \in UNION {{heap[a][j] : j \in DOMAIN heap[a]} : a \in DOMAIN heap} :
        rec.batch = b}

MethodNotices == {"browser-info", "server-info", "server-info-avif"}

\* C28: the conversion method shown agrees with the strategy used: while a
\* method notice is displayed it is the browser notice exactly when
\* convertToFormat takes the local strategy for the selected format, and a
\* convert run started under a notice uses the strategy the notice names.
C28_NoticeAgreesWithStrategy ==
    /\ [](output \in MethodNotices =>
            (output = "browser-info" <=>
                ConvertToFormat([batch |-> 1, index |-> 0], formatSelect).strategy = "local"))
    /\ [][\A r \in DOMAIN runs' :
            (r \notin DOMAIN runs /\ output \in MethodNotices) =>
                \A k \in DOMAIN runs'[r].tasks :
                    output = "browser-info" <=> runs'[r].tasks[k].strategy = "local"]_vars

\* A browser without WebP support shows the server notice for webp after a
\* file was read, and the next convert click uses the server.
C28_Witness ==
    /\ ~webpSupported
    /\ formatSelect = "webp"
    /\ output = "server-info"
    /\ ~convertButtonDisabled
    /\ Len(heap[Len(heap)]) > 0

\* C29: once files have been selected, the convert button is enabled only
\* when the newest selection has been read completely and successfully and
\* no read is in progress.
C29_ButtonEnabledOnlyWhenRead ==
    (calls # <<>> /\ ~convertButtonDisabled) =>
        /\ calls[Len(calls)].pc = "resolved"
        /\ \A b \in DOMAIN calls : calls[b].pc # "reading"

----------------------------------------------------------------------------
\* Properties of the helpers

Positive(rp) == rp.kind = "number" /\ rp.hundredths > 0

Negative(rp) == rp.kind = "-Infinity" \/ (rp.kind = "number" /\ rp.hundredths < 0)

\* rp is a number of hundredths nearest to 100 * (o - c) / o.
NearestHundredth(rp, o, c) ==
    /\ rp.kind = "number"
    /\ Abs(2 * rp.hundredths * o - 20000 * (o - c)) <= o

\* C8 as stated: reductionPercentage is ((originalSize - convertedSize) /
\* originalSize) * 100 rounded to 2 decimals, and it is positive if and only
\* if convertedSize < originalSize.
C8_RoundedAndPositiveIffSmaller ==
    (call.op = "reductionPercentage" /\ call.done) =>
        /\ call.originalSize > 0 =>
              NearestHundredth(call.out, call.originalSize, call.convertedSize)
        /\ Positive(call.out) <=> call.convertedSize < call.originalSize

\* C8 as amended: for originalSize > 0 reductionPercentage is the 2-decimal
\* value nearest to the exact percentage; it is positive only if
\* convertedSize < originalSize and negative only if convertedSize >
\* originalSize, positive whenever the reduction exceeds 0.005 % and never
\* when it is below 0.005 %; for originalSize = 0 it is NaN or -Infinity,
\* never positive; and 'reduced' is shown exactly when it is positive.
C8_RoundedAndSignConsistent ==
    (call.op = "reductionPercentage" /\ call.done) =>
        LET o == call.originalSize
            c == call.convertedSize
        IN  /\ o > 0 => NearestHundredth(call.out, o, c)
            /\ o = 0 => call.out.kind = (IF c = 0 THEN "NaN" ELSE "-Infinity")
            /\ Positive(call.out) => c < o
            /\ Negative(call.out) => c > o
            /\ (o > 0 /\ 20000 * (o - c) > o) => Positive(call.out)
            /\ (o > 0 /\ 20000 * (o - c) < o) => ~Positive(call.out)
            /\ call.sizeText = "reduced" <=> Positive(call.out)

\* A conversion that saved one byte of 40000 reports 0 and shows
\* 'increased'.
C8_Witness ==
    /\ call.op = "reductionPercentage"
    /\ call.done
    /\ call.originalSize = 40000
    /\ call.convertedSize = 39999
    /\ call.out = [kind |-> "number", hundredths |-> 0]
    /\ call.sizeText = "increased"

\* C9: for every byte sequence of length n >= 0 encoded as a standard padded
\* base64 data URL, getDataUrlSize returns n, the decoded byte length.
C9_DataUrlSizeIsByteLength ==
    (call.op = "getDataUrlSize" /\ call.done) => call.out = Len(call.bytes)

\* One byte, encoded as four characters ending in '==', measures 1.
C9_Witness ==
    /\ call.op = "getDataUrlSize"
    /\ call.done
    /\ Len(call.bytes) = 1
    /\ Len(call.dataUrl) = 6
    /\ call.out = 1

\* C10: for every name base.ext whose ext is non-empty and holds no '.' or
\* '/', generateFileName gives base.format; a name that is not of that form
\* (it has no extension) gets .format appended.
C10_ExtensionReplaced ==
    (call.op = "generateFileName" /\ call.done) =>
        LET nm == call.originalName
            fmt == FormatChars(call.format)
            HasExt(i) == /\ nm[i] = "."
                         /\ i < Len(nm)
                         /\ \A j \in (i + 1)..Len(nm) : nm[j] \notin {".", "/"}
        IN  /\ \A i \in DOMAIN nm :
                  HasExt(i) => call.out = SubSeq(nm, 1, i - 1) \o <<".">> \o fmt
            /\ (\A i \in DOMAIN nm : ~HasExt(i)) => call.out = nm \o <<".">> \o fmt

\* p.J converted to webp is named p.webp.
C10_Witness ==
    /\ call.op = "generateFileName"
    /\ call.done
    /\ call.originalName = <<"p", ".", "J">>
    /\ call.format = "webp"
    /\ call.out = <<"p", ".", "w", "e", "b", "p">>

\* A dimension that getResizeOptions set to an integer greater than 0.
PositiveInteger(x) == x.kind = "number" /\ x.value > 0

\* C15: getResizeOptions returns null whenever resize is disabled or both
\* width and height are empty, otherwise an object with width or height set;
\* and whenever validateResizeOptions returns true, the options are null or
\* have every set dimension an integer greater than 0.
C15_ResizeAbsentOrValid ==
    (call.op = "resizeOptions" /\ call.done) =>
        LET c == resizeControls
            absent == c.checkbox # "checked" \/ (c.width = <<>> /\ c.height = <<>>)
        IN  /\ absent => IsNull(call.out)
            /\ ~absent => /\ ~IsNull(call.out)
                          /\ DOMAIN call.out \cap {"width", "height"} # {}
            /\ call.valid =>
                  \/ IsNull(call.out)
                  \/ \A k \in DOMAIN call.out \cap {"width", "height"} :
                        PositiveInteger(call.out[k])

----------------------------------------------------------------------------
\* Properties of convertToFormat

\* How many POSTs request q has issued.
PostsOf(q) == Cardinality({p \in DOMAIN network : network[p].request = q})

\* C13: the remote strategy issues exactly one POST per request, and a
\* non-2xx response, a transport failure or a malformed body (invalid JSON,
\* or JSON without a conversion result in its data field) makes the request
\* reject rather than resolve with a value.
C13_OnePostAndBadResponsesReject ==
    \A q \in DOMAIN requests :
        requests[q].task.strategy = "remote" =>
            /\ PostsOf(q) = 1
            /\ requests[q].event \in {"fetchFailed", "notOk", "invalidJSON", "nullJSON",
                                      "noData", "badData"}
                  => requests[q].outcome.kind = "rejected"

\* C14: the form of a POST holds image and format, and besides them width,
\* height and fit for every resize parameter that is set on the page, and
\* none of these when resize is absent.
C14_FormCarriesResizeFields ==
    \A p \in DOMAIN network :
        LET form == network[p].form
            options == GetResizeOptions(resizeControls)
        IN  /\ {"image", "format"} \subseteq DOMAIN form
            /\ IF IsNull(options)
               THEN DOMAIN form \cap {"width", "height", "fit"} = {}
               ELSE /\ DOMAIN form \cap {"width", "height", "fit"} = DOMAIN options
                    /\ \A k \in DOMAIN options : form[k] = options[k]

\* C16: a local conversion made with only the width set encodes an image of
\* the requested width whose height keeps the original aspect ratio within
\* one pixel.
C16_WidthOnlyKeepsAspectRatio ==
    \A q \in DOMAIN requests :
        LET r == requests[q]
            options == GetResizeOptions(resizeControls)
            original == r.fileData.imageUrl
        IN  (/\ r.task.strategy = "local"
             /\ r.outcome.kind = "resolved"
             /\ ~IsNull(options)
             /\ "width" \in DOMAIN options
             /\ "height" \notin DOMAIN options) =>
                /\ r.canvas.width = options.width.value
                /\ Abs(r.canvas.height * original.width
                         - options.width.value * original.height) <= original.width

\* C17: a rejected conversion names its cause: DecodeError for an image that
\* does not decode, RemoteConversionError for a transport failure or a
\* non-2xx response, with the HTTP status when there is one, ConversionError
\* for anything else.
C17_FailuresClassifiedByCause ==
    \A q \in DOMAIN requests :
        LET r == requests[q]
        IN  r.outcome.kind = "rejected" =>
                CASE r.event = "error" -> r.outcome.error.name = "DecodeError"
                  [] r.event \in {"fetchFailed", "notOk"} ->
                        /\ r.outcome.error.name = "RemoteConversionError"
                        /\ r.status # 0 =>
                              /\ "status" \in DOMAIN r.outcome.error
                              /\ r.outcome.error.status = r.status
                  [] OTHER -> r.outcome.error.name = "ConversionError"

\* C20: local conversions in flight together do not interfere: each has an
\* Image of its own, and it settles as it would alone, rejecting exactly
\* when its own file does not decode and otherwise resolving with the result
\* and the canvas that follow from its own fileData.
C20_LocalConversionsIndependent ==
    \A q \in DOMAIN requests :
        LET r == requests[q]
            alone == [src |-> r.fileData.imageUrl]
        IN  r.task.strategy = "local" =>
                /\ \A q2 \in DOMAIN requests :
                      (q2 # q /\ requests[q2].task.strategy = "local")
                          => requests[q2].img # r.img
                /\ images[r.img] = alone
                /\ r.outcome.kind = "resolved" =>
                      /\ r.fileData.imageUrl.decodes
                      /\ r.outcome.value \in OnloadResults(r.fileData, alone)
                      /\ r.canvas = DrawImage(alone)
                /\ r.outcome.kind = "rejected" =>
                      /\ ~r.fileData.imageUrl.decodes
                      /\ r.outcome.error = LoadError

\* Two local conversions of different files were in flight together, and the
\* second has resolved with its own file's result while the first still
\* loads.
C20_Witness ==
    /\ Len(requests) = 2
    /\ requests[1].task.strategy = "local"
    /\ requests[2].task.strategy = "local"
    /\ requests[1].fileData # requests[2].fileData
    /\ requests[1].step = "loading"
    /\ requests[2].outcome.kind = "resolved"
    /\ requests[2].outcome.value.fileName
          = GenerateFileName(requests[2].fileData.file.name, "webp")

----------------------------------------------------------------------------
\* Properties of the visit count

\* C27: starting from an absent visit count, the stored count after the n-th
\* page load is n, the instructions are collapsed at the end of that load
\* exactly when n >= 2, and every later step (a click on the header) flips
\* the section and leaves the stored count alone.
C27_VisitCountAndCollapse ==
    /\ [](/\ pageLoads = 0 => localStorage = <<>>
          /\ pageLoads >= 1 => /\ localStorage = NumberToString(pageLoads)
                               /\ GetVisitCount(localStorage).value = pageLoads)
    /\ [][IF pageLoads' # pageLoads
          THEN instructionsCollapsed' <=> pageLoads' >= 2
          ELSE /\ instructionsCollapsed' = ~instructionsCollapsed
               /\ localStorage' = localStorage]_vars

\* After the eleventh load the stored count is "11" and the section,
\* collapsed by the load, has been expanded by a click.
C27_Witness ==
    /\ pageLoads = 11
    /\ localStorage = <<"1", "1">>
    /\ ~instructionsCollapsed

----------------------------------------------------------------------------
\* Properties of the development server

\* The rebuildAssets executions in progress.
InProgress == {k \in DOMAIN builds : builds[k].pc \in {"css", "html", "write"}}

\* Nothing is pending: no timer is set and no rebuild runs, so nothing more
\* happens until the next change event.
Quiescent ==
    /\ cssDebounceTimer = NoTimer
    /\ htmlDebounceTimer = NoTimer
    /\ InProgress = {}

\* C23: no change is permanently lost: every change event is followed by a
\* rebuild that starts after it and, when that rebuild succeeds, by a
\* hot-reload message to all connected clients. Once nothing is pending, a
\* rebuild that started after the last change has run to its end.
C23_EveryChangeRebuilt ==
    (Quiescent /\ changes # <<>>) =>
        \E k \in DOMAIN builds :
            /\ builds[k].changesSeen = Len(changes)
            /\ builds[k].pc \in {"done", "failed"}

\* C25: at most one rebuildAssets execution is in progress, the flag is set
\* exactly while one is, so it is false again after every rebuild, done or
\* failed; and a call made while a rebuild runs returns without rebuilding
\* and leaves the running rebuild alone.
C25_OneRebuildAtATime ==
    /\ [](/\ Cardinality(InProgress) <= 1
          /\ isRebuilding <=> InProgress # {})
    /\ [][\A k \in DOMAIN builds' :
            k \notin DOMAIN builds =>
                IF InProgress # {}
                THEN /\ builds'[k].pc = "skipped"
                     /\ \A j \in DOMAIN builds : builds'[j] = builds[j]
                ELSE builds'[k].pc = "css"]_vars

\* A rebuild was requested while another ran and returned at once; the
\* running one then threw, and the flag is false again.
C25_Witness ==
    /\ Len(builds) = 2
    /\ builds[1].pc = "failed"
    /\ builds[2].pc = "skipped"
    /\ ~isRebuilding

\* The debounce timer of a watched file.
Timer(f) == IF f = "CSS" THEN cssDebounceTimer ELSE htmlDebounceTimer

\* The change events of f that start a run: the first one, and each one that
\* comes 300 ms or more after the previous one.
Runs(f) == {c \in DOMAIN changes : changes[c].file = f /\ changes[c].newRun}

\* C26: per file, every run of change events less than 300 ms apart leads to
\* exactly one rebuildAssets call, made 300 ms after the last event of the
\* run: the calls made for a file, plus the one its pending timer will make,
\* are as many as its runs, whatever happens to the other file.
C26_DebouncedPerFile ==
    /\ \A f \in WatchedFiles :
          /\ Cardinality({k \in DOMAIN builds : builds[k].fileType = f})
                + (IF Timer(f) # NoTimer THEN 1 ELSE 0)
                = Cardinality(Runs(f))
          /\ Timer(f) # NoTimer => Timer(f) = Debounce - sinceChange[f]
    /\ \A k \in DOMAIN builds : builds[k].delay = Debounce

\* Two CSS changes less than 300 ms apart and one HTML change in between
\* made one rebuildAssets call each.
C26_Witness ==
    /\ Len(changes) = 3
    /\ changes[1] = [file |-> "CSS", newRun |-> TRUE]
    /\ changes[2] = [file |-> "HTML", newRun |-> TRUE]
    /\ changes[3] = [file |-> "CSS", newRun |-> FALSE]
    /\ Len(builds) = 2
    /\ builds[1].fileType = "HTML"
    /\ builds[2].fileType = "CSS"
    /\ cssDebounceTimer = NoTimer
    /\ htmlDebounceTimer = NoTimer

====
